---------------------------- MODULE Spec2Model ----------------------------
(***************************************************************************)
(* A model of xno-connect: the CPU proof-of-work search                    *)
(* (src/work/cpu.rs, src/work/validate.rs) and the wallet account flows    *)
(* (src/wallet/account.rs, src/blocks/state.rs, src/types/amount.rs).      *)
(*                                                                         *)
(* Integer widths are scaled down: a nonce is NonceBits wide instead of    *)
(* 64, the flags are polled every 2^PollBits nonces instead of every 2^12, *)
(* and a Raw amount is RawBits wide instead of 128.  All arithmetic is     *)
(* done as the code does it at that width.                                 *)
(***************************************************************************)
EXTENDS Integers, Naturals, Sequences, FiniteSets, TLC

\* ------------------------------------------------------------------ bounds
NonceBits == 3
PollBits == 1
MaxThreads == 3
RawBits == 2
\* wallet indices run over 0 .. MaxIndex
MaxIndex == 2
\* the characters of an address that carry the public key
PkChars == 2

RECURSIVE Pow2(_)
Pow2(n) == IF n = 0 THEN 1 ELSE 2 * Pow2(n - 1)

\* u64::MAX and 2^64 at the model's width
Modulus == Pow2(NonceBits)
U64_MAX == Modulus - 1
\* 0xFFF + 1: the distance between two polls of the flags
PollPeriod == Pow2(PollBits)

Nonces == 0 .. U64_MAX
Hashes == {0, 1}
Thresholds == {0, Modulus - 4, U64_MAX}
Workers == 0 .. (MaxThreads - 1)
NoNonce == 0 - 1

VARIABLES
    self_threads,   \* CpuWorkGenerator.threads (0 = auto)
    hash,           \* generate's hash argument (the work root)
    threshold,      \* generate's threshold argument
    cancelled,      \* generate's cancelled argument: "none", "unset" or "set"
    found_flag,     \* the shared AtomicBool of generate
    wpc,            \* each worker closure's position
    nonce,          \* each worker's loop variable
    ret,            \* each worker closure's return value (NoNonce = None)
    result,         \* generate's return value, "running" until it returns
    work,           \* the nonce of Ok(work)
    first,          \* history: the nonce stored by the first worker to find one
    flagged,        \* history: a flag was set while the worker was scanning
    since,          \* history: nonces a worker has tested since then
    cancelAtCall    \* history: the cancel flag was set when generate was called

powVars == <<self_threads, hash, threshold, cancelled, found_flag, wpc, nonce,
             ret, result, work, first, flagged, since, cancelAtCall>>

VARIABLES
    op,             \* the flow: "send", "change", "receive" or "send_and_change"
    local,          \* TRUE for the flow's _local variant (CPU work)
    amount,         \* the flow's amount argument
    target,         \* destination (send) or source_hash (receive)
    new_representative,
    fpc,            \* the flow's position
    info,           \* the result of self.info(client).await
    root,           \* the hash work was requested or computed over
    work_response,  \* the result of the work step
    built,          \* the result of the create_* call
    submitted,      \* the block handed to client.process
    log,            \* history: the steps started, in order
    flow_result     \* the flow's return value, "running" until it returns

walletVars == <<op, local, amount, target, new_representative, fpc, info, root,
                work_response, built, submitted, log, flow_result>>

VARIABLES
    seed,               \* Wallet.seed
    derived_accounts,   \* Wallet.derived_accounts
    requested,          \* history: the indices requested so far
    fl,                 \* the two concurrent wallet flows
    ledger              \* the node: each account's frontier

acctVars == <<seed, derived_accounts, requested, fl, ledger>>

VARIABLES
    bb,         \* the BlockBuilder the calls are chained on
    bpc,        \* "building" until build() consumes the builder
    bres,       \* the result of build()
    last_call,  \* history: "sign" when the latest call was sign()
    sig_calls,  \* history: "none", "noop" (only sign() calls that stored
                \* nothing so far) or "stored"
    signed      \* history: the block as the latest storing sign() saw it

builderVars == <<bb, bpc, bres, last_call, sig_calls, signed>>

VARIABLES
    args,       \* the arguments of a block constructor call
    made        \* what the call returned

factoryVars == <<args, made>>

VARIABLES
    addr,       \* the string handed to decode_account
    decoded     \* the result of decoding, and of encoding it again

codecVars == <<addr, decoded>>

VARIABLES
    call,       \* the RpcClient method called and its block argument
    request,    \* the request built for it
    reply,      \* what came back from the node
    rpc_result  \* the method's return value

rpcVars == <<call, request, reply, rpc_result>>

VARIABLES
    ra          \* one receive_all / receive_all_local call

recvVars == <<ra>>

VARIABLES
    frames,     \* the frames the stream will yield, in order
    ws          \* one WebSocketClient::receive call

wsVars == <<frames, ws>>

netVars == <<rpcVars, recvVars, wsVars>>

vars == <<powVars, walletVars, acctVars, builderVars, factoryVars, codecVars,
          netVars>>

\* what the actions of one component leave alone
notPow == <<walletVars, acctVars, builderVars, factoryVars, codecVars, netVars>>
notWallet == <<powVars, acctVars, builderVars, factoryVars, codecVars, netVars>>
notAcct == <<powVars, walletVars, builderVars, factoryVars, codecVars, netVars>>
notBuilder == <<powVars, walletVars, acctVars, factoryVars, codecVars, netVars>>
notFactory == <<powVars, walletVars, acctVars, builderVars, codecVars, netVars>>
notCodec == <<powVars, walletVars, acctVars, builderVars, factoryVars, netVars>>
notRpc == <<powVars, walletVars, acctVars, builderVars, factoryVars, codecVars,
            recvVars, wsVars>>
notRecv == <<powVars, walletVars, acctVars, builderVars, factoryVars, codecVars,
             rpcVars, wsVars>>
notWs == <<powVars, walletVars, acctVars, builderVars, factoryVars, codecVars,
           rpcVars, recvVars>>

\* ------------------------------------------------- types/amount.rs

\* Option::None, for fields that hold numbers
None == 0 - 1

\* Raw::MAX (u128::MAX) and Raw::ZERO at the model's width
RawModulus == Pow2(RawBits)
RawMax == RawModulus - 1
RawZero == 0
Raws == 0 .. RawMax

\* mutants: u128 arithmetic that wraps around
wrapping_sub(a, b) == (a - b + RawModulus) % RawModulus
wrapping_add(a, b) == (a + b) % RawModulus

checked_sub(a, b) == IF b > a THEN None ELSE a - b
checked_add(a, b) == IF a + b > RawMax THEN None ELSE a + b
unwrap_or(x, d) == IF x = None THEN d ELSE x

\* ------------------------------------- types/block.rs, blocks/*.rs

\* 32-byte values: block hashes, links and public keys share their bytes
ZeroHash == 0
Bytes32 == {0, 1, 2, 3}

\* the wallet account's keypair
KeyPair == [secret |-> 7, public |-> 2]
account_of(kp) == kp.public

NoSignature == <<>>

\* a digest that leaves the link out
hash_no_link(b) ==
    <<b.account, b.previous, b.representative, b.balance>>

\* BlockHasher::hash_state_block: the digest binds exactly these five fields
hash_state_block(b) ==
    <<b.account, b.previous, b.representative, b.balance, b.link>>

\* KeyPair::sign over a block hash
sign_hash(h, kp) == <<kp.public, h>>

\* KeyPair::verify_with_public_key
verify_with_public_key(public_key, h, signature) == signature = <<public_key, h>>

\* BlockSigner::verify
verify(block) ==
    IF block.signature = NoSignature THEN FALSE
    ELSE verify_with_public_key(block.account, hash_state_block(block),
                                block.signature)

BlockBuilder_new ==
    [account |-> None, previous |-> None, representative |-> None,
     balance |-> None, link |-> None, subtype |-> "None",
     signature |-> NoSignature, work |-> None]

\* the checks of build_unsigned with the first two swapped
MissingFieldPreviousFirst(b) ==
    IF b.previous = None THEN "previous"
    ELSE IF b.account = None THEN "account"
    ELSE IF b.representative = None THEN "representative"
    ELSE IF b.balance = None THEN "balance"
    ELSE IF b.link = None THEN "link"
    ELSE "Ok"

MissingField(b) ==
    IF b.account = None THEN "account"
    ELSE IF b.previous = None THEN "previous"
    ELSE IF b.representative = None THEN "representative"
    ELSE IF b.balance = None THEN "balance"
    ELSE IF b.link = None THEN "link"
    ELSE "Ok"

\* build_unsigned: the block without signature or work
build_unsigned(b) ==
    [err |-> MissingField(b),
     block |-> [b EXCEPT !.signature = NoSignature, !.work = None]]

\* build: an Err(MissingField(name)) or the block
build(b) ==
    [err |-> MissingField(b), block |-> b]

\* a sign that stores a signature whatever fields are set
signAlways(b, kp) ==
    [b EXCEPT !.signature = sign_hash(hash_state_block(b), kp)]

sign(b, kp) ==
    IF build_unsigned(b).err = "Ok"
    THEN [b EXCEPT !.signature =
             sign_hash(hash_state_block(build_unsigned(b).block), kp)]
    ELSE b

with_work(b, w) == IF w # None THEN [b EXCEPT !.work = w] ELSE b

\* StateBlock::new
StateBlock_new(acct, previous, representative, balance, link) ==
    [BlockBuilder_new EXCEPT
        !.account = acct,
        !.previous = previous,
        !.representative = representative,
        !.balance = balance,
        !.link = link]

\* create_send_block calling sign() before the link is set
create_send_blockSignFirst(kp, previous, representative, current_balance, amt, destination, w) ==
    build(with_work(
        [sign([BlockBuilder_new EXCEPT
                  !.account = account_of(kp),
                  !.previous = previous,
                  !.representative = representative,
                  !.balance = unwrap_or(checked_sub(current_balance, amt), RawZero)],
              kp) EXCEPT
            !.link = destination,
            !.subtype = "send"], w))

create_send_block(kp, previous, representative, current_balance, amt, destination, w) ==
    build(with_work(sign(
        [BlockBuilder_new EXCEPT
            !.account = account_of(kp),
            !.previous = previous,
            !.representative = representative,
            !.balance = unwrap_or(checked_sub(current_balance, amt), RawZero),
            !.link = destination,
            !.subtype = "send"], kp), w))

create_receive_block(kp, previous, representative, current_balance, amt, source_hash, w) ==
    build(with_work(sign(
        [BlockBuilder_new EXCEPT
            !.account = account_of(kp),
            !.previous = previous,
            !.representative = representative,
            !.balance = unwrap_or(checked_add(current_balance, amt), RawMax),
            !.link = source_hash,
            !.subtype = "receive"], kp), w))

create_open_block(kp, representative, amt, source_hash, w) ==
    build(with_work(sign(
        [BlockBuilder_new EXCEPT
            !.account = account_of(kp),
            !.previous = ZeroHash,
            !.representative = representative,
            !.balance = amt,
            !.link = source_hash,
            !.subtype = "open"], kp), w))

create_change_block(kp, previous, new_rep, balance, w) ==
    build(with_work(sign(
        [BlockBuilder_new EXCEPT
            !.account = account_of(kp),
            !.previous = previous,
            !.representative = new_rep,
            !.balance = balance,
            !.link = ZeroHash,
            !.subtype = "change"], kp), w))

\* WalletAccount::create_send_and_change
create_send_and_change(kp, previous, new_rep, current_balance, amt, destination, w) ==
    build(with_work(sign(
        [BlockBuilder_new EXCEPT
            !.account = account_of(kp),
            !.previous = previous,
            !.representative = new_rep,
            !.balance = unwrap_or(checked_sub(current_balance, amt), RawZero),
            !.link = destination,
            !.subtype = "send"], kp), w))


\* blocks/builder.rs: builders with the common fields pre-set
send_block_builder(acct, previous, representative, new_balance, destination) ==
    [BlockBuilder_new EXCEPT
        !.account = acct,
        !.previous = previous,
        !.representative = representative,
        !.balance = new_balance,
        !.link = destination,
        !.subtype = "send"]

receive_block_builder(acct, previous, representative, new_balance, source_hash) ==
    [BlockBuilder_new EXCEPT
        !.account = acct,
        !.previous = previous,
        !.representative = representative,
        !.balance = new_balance,
        !.link = source_hash,
        !.subtype = "receive"]

open_block_builder(acct, representative, balance, source_hash) ==
    [BlockBuilder_new EXCEPT
        !.account = acct,
        !.previous = ZeroHash,
        !.representative = representative,
        !.balance = balance,
        !.link = source_hash,
        !.subtype = "open"]

change_block_builder(acct, previous, new_rep, balance) ==
    [BlockBuilder_new EXCEPT
        !.account = acct,
        !.previous = previous,
        !.representative = new_rep,
        !.balance = balance,
        !.link = ZeroHash,
        !.subtype = "change"]

\* StateBlock::infer_subtype without the early return for a zero link
infer_subtypeNoLinkCheck(b, previous_balance) ==
    IF b.previous = ZeroHash THEN "open"
    ELSE IF previous_balance # None /\ b.balance < previous_balance THEN "send"
    ELSE IF previous_balance # None /\ b.balance > previous_balance THEN "receive"
    ELSE IF previous_balance # None THEN "change"
    ELSE IF b.link = ZeroHash THEN "change"
    ELSE "send"

\* StateBlock::infer_subtype with the balance comparisons the other way round
infer_subtypeSwapped(b, previous_balance) ==
    IF b.previous = ZeroHash THEN "open"
    ELSE IF b.link = ZeroHash THEN "change"
    ELSE IF previous_balance # None /\ b.balance > previous_balance THEN "send"
    ELSE IF previous_balance # None /\ b.balance < previous_balance THEN "receive"
    ELSE IF previous_balance # None THEN "change"
    ELSE IF b.link = ZeroHash THEN "change"
    ELSE "send"

\* StateBlock::infer_subtype
infer_subtype(b, previous_balance) ==
    IF b.previous = ZeroHash THEN "open"
    ELSE IF b.link = ZeroHash THEN "change"
    ELSE IF previous_balance # None /\ b.balance < previous_balance THEN "send"
    ELSE IF previous_balance # None /\ b.balance > previous_balance THEN "receive"
    ELSE IF previous_balance # None THEN "change"
    ELSE IF b.link = ZeroHash THEN "change"
    ELSE "send"

\* ------------------------------------------------ wallet/account.rs

Ops == {"send", "change", "receive", "send_and_change"}
RpcErrors == {"ConnectionFailed", "InvalidResponse", "NodeError"}
WorkValue == 5

NoInfo ==
    [err |-> "pending", frontier |-> ZeroHash, balance |-> RawZero,
     representative |-> None]
\* the replies account_info can give: an error, or frontier, balance and an
\* optional representative
InfoReplies ==
    [err : RpcErrors, frontier : {ZeroHash}, balance : {RawZero},
     representative : {None}]
    \cup [err : {"Ok"}, frontier : {0, 1, 3}, balance : Raws,
          representative : {None, 1}]

NoWork == [err |-> "pending", work |-> None]
NoBuilt == [err |-> "unbuilt", block |-> BlockBuilder_new]

WalletIdle ==
    /\ op = "send"
    /\ local = FALSE
    /\ amount = RawZero
    /\ target = ZeroHash
    /\ new_representative = 1
    /\ fpc = "idle"
    /\ info = NoInfo
    /\ root = None
    /\ work_response = NoWork
    /\ built = NoBuilt
    /\ submitted = BlockBuilder_new
    /\ log = <<>>
    /\ flow_result = "running"


\* -------------------------------------------------- wallet/wallet.rs

Indices == 0 .. MaxIndex
Seeds == {0, 1}
Flows == {1, 2}

\* Seed::derive / derive_keypair: Blake2b over seed and index, then the
\* public key of that private key; distinct (seed, index) pairs give
\* distinct keys
deriveNoIndex(sd, index) ==
    [secret |-> sd * (MaxIndex + 1) + 10, public |-> sd * (MaxIndex + 1) + 1]

derive(sd, index) ==
    [secret |-> sd * (MaxIndex + 1) + index + 10,
     public |-> sd * (MaxIndex + 1) + index + 1]

\* the loop of get_keypair: push derive(len) while len <= index
get_keypairRequested(da, sd, index) ==
    da \o [k \in 1 .. (index + 1 - Len(da)) |-> derive(sd, index)]

get_keypair(da, sd, index) ==
    da \o [k \in 1 .. (index + 1 - Len(da)) |-> derive(sd, Len(da) + k - 1)]

\* (0..count).map(|i| self.address(i)): get_keypair for 0, 1, .. count-1
addresses(da, sd, count) ==
    IF count = 0 THEN da ELSE get_keypair(da, sd, count - 1)

\* the accounts a node may hold a chain for
Accounts == {derive(sd, i).public : sd \in Seeds, i \in Indices}

\* the hash of the block at height h of an account's chain
frontier_of(a, h) == a * (Cardinality(Flows) + 1) + h + 1

IdleFlow ==
    [pc |-> "idle", index |-> None, keypair |-> KeyPair, frontier |-> None,
     balance |-> None, block |-> BlockBuilder_new, reply |-> "none"]

AcctIdle ==
    /\ seed = 0
    /\ derived_accounts = <<>>
    /\ requested = {}
    /\ fl = [f \in Flows |-> IdleFlow]
    /\ ledger = [a \in Accounts |-> [height |-> 0, balance |-> RawMax]]


\* --------------------------------------- blocks/builder.rs, state.rs

BuilderIdle ==
    /\ bb = BlockBuilder_new
    /\ bpc = "idle"
    /\ bres = NoBuilt
    /\ last_call = "new"
    /\ sig_calls = "none"
    /\ signed = BlockBuilder_new

NoArgs ==
    [keypair |-> KeyPair, previous |-> ZeroHash, representative |-> ZeroHash,
     balance |-> RawZero, amount |-> RawZero, link |-> ZeroHash,
     work |-> None, previous_balance |-> None]
NoMade == [kind |-> "none", err |-> "unbuilt", block |-> BlockBuilder_new,
           inferred |-> "None"]

FactoryIdle ==
    /\ args = NoArgs
    /\ made = NoMade

\* ------------------------------------------------- types/account.rs

\* BASE32_ALPHABET, two bits a character: digits first, then letters
Alphabet == <<"1", "3", "a", "b">>
Base == Len(Alphabet)

\* the characters an input string is made of: the alphabet, upper case
\* letters, a character outside the alphabet, and a character that takes two
\* bytes in UTF-8
Chars == {"1", "3", "a", "A", "b", "0", "U+00E9"}

\* char::len_utf8
len_utf8(c) == IF c = "U+00E9" THEN 2 ELSE 1

\* str::len: the length in bytes
RECURSIVE byte_len(_)
byte_len(str) ==
    IF str = <<>> THEN 0
    ELSE len_utf8(Head(str)) + byte_len(Tail(str))

\* str::is_char_boundary(n)
is_char_boundary(str, n) ==
    \E k \in 0 .. Len(str) : byte_len(SubSeq(str, 1, k)) = n

\* &str[..n] and &str[n..] for a boundary n
slice_to(str, n) ==
    SubSeq(str, 1, CHOOSE k \in 0 .. Len(str) : byte_len(SubSeq(str, 1, k)) = n)
slice_from(str, n) ==
    SubSeq(str, 1 + (CHOOSE k \in 0 .. Len(str) : byte_len(SubSeq(str, 1, k)) = n),
           Len(str))
Prefixes == {"nano_", "xno_", "NANO_"}

\* public keys: one bit from the first character, two from each other one
PublicKeys == 0 .. (2 * Pow2(2 * (PkChars - 1)) - 1)

\* base32_char_value: letters in either case, Err(()) outside the alphabet
base32_char_value(c) ==
    CASE c = "1" -> 0
      [] c = "3" -> 1
      [] c \in {"a", "A"} -> 2
      [] c \in {"b", "B"} -> 3
      [] OTHER -> None

\* the number of one bits of n
RECURSIVE count_ones(_)
count_ones(n) == IF n = 0 THEN 0 ELSE (n % 2) + count_ones(n \div 2)

\* the Blake2b digest of the public key, one character wide: keys that
\* differ in one bit have different digests
checksum(pk) == (count_ones(pk) + 1) % Base

\* encode_base32_256: the first character holds padding and the top bit
encode_base32_256(pk) ==
    [k \in 1 .. PkChars |->
        Alphabet[((pk \div Pow2(2 * (PkChars - k))) % Base) + 1]]

\* encode_base32_40
encode_base32_40(sum) == <<Alphabet[sum + 1]>>

\* the accumulator of decode_base32_256 after the first k characters
RECURSIVE decode_bits(_, _)
decode_bits(str, k) ==
    IF k = 1 THEN base32_char_value(str[1]) % 2
    ELSE decode_bits(str, k - 1) * Base + base32_char_value(str[k])

\* decode_base32_256: Err(()) on a character outside the alphabet; only the
\* lowest bit of the first character is used
decode_base32_256(str) ==
    IF \E k \in 1 .. Len(str) : base32_char_value(str[k]) = None THEN None
    ELSE decode_bits(str, Len(str))

\* decode_base32_40
decode_base32_40(str) == base32_char_value(str[1])

\* encode_account with the other prefix
encode_accountXno(pk) ==
    [prefix |-> "xno_",
     data |-> encode_base32_256(pk) \o encode_base32_40(checksum(pk))]

\* encode_account
encode_account(pk) ==
    [prefix |-> "nano_",
     data |-> encode_base32_256(pk) \o encode_base32_40(checksum(pk))]

\* decode_account: Ok(public key), the AccountError, or the panic of slicing
\* `&data[..52]` inside a character
decode_account(address) ==
    IF address.prefix \notin {"nano_", "xno_"}
    THEN [err |-> "InvalidPrefix", public_key |-> None]
    ELSE IF byte_len(address.data) # PkChars + 1
    THEN [err |-> "InvalidLength", public_key |-> None]
    ELSE IF ~is_char_boundary(address.data, PkChars)
    THEN [err |-> "panic", public_key |-> None]
    ELSE IF decode_base32_256(slice_to(address.data, PkChars)) = None
    THEN [err |-> "InvalidEncoding", public_key |-> None]
    ELSE IF decode_base32_40(slice_from(address.data, PkChars)) = None
    THEN [err |-> "InvalidEncoding", public_key |-> None]
    ELSE IF decode_base32_40(slice_from(address.data, PkChars))
            # checksum(decode_base32_256(slice_to(address.data, PkChars)))
    THEN [err |-> "ChecksumMismatch", public_key |-> None]
    ELSE [err |-> "Ok",
          public_key |-> decode_base32_256(slice_to(address.data, PkChars))]

NoAddr == [prefix |-> "", data |-> <<>>]
NoDecoded == [err |-> "pending", public_key |-> None, encoded |-> NoAddr]

CodecIdle ==
    /\ addr = NoAddr
    /\ decoded = NoDecoded


\* ------------------------------------------- rpc/*.rs, websocket/*.rs

\* Subtype::as_str
Subtype_as_str(st) ==
    CASE st = "send" -> "send"
      [] st = "receive" -> "receive"
      [] st = "open" -> "open"
      [] st = "change" -> "change"
      [] st = "epoch" -> "epoch"

\* strings: the empty one, and the hex and decimal renderings of a value
EmptyString == <<>>
to_hex(x) == <<"hex", x>>
encode_upper(x) == <<"HEX", x>>
to_string(x) == <<"dec", x>>

\* ProcessRequest::new with the account in place of the link
ProcessRequest_newOfAccount(block) ==
    [action |-> "process",
     json_block |-> "true",
     subtype |-> IF block.subtype = "None" THEN "absent"
                 ELSE Subtype_as_str(block.subtype),
     block |-> [type |-> "state",
                account |-> encode_account(block.account),
                previous |-> to_hex(block.previous),
                representative |-> encode_account(block.representative),
                balance |-> to_string(block.balance),
                link |-> to_hex(block.link),
                link_as_account |-> encode_account(block.account),
                signature |-> IF block.signature = NoSignature THEN EmptyString
                              ELSE encode_upper(block.signature),
                work |-> IF block.work = None THEN EmptyString
                         ELSE to_hex(block.work)]]

\* ProcessRequest::new
ProcessRequest_new(block) ==
    [action |-> "process",
     json_block |-> "true",
     subtype |-> IF block.subtype = "None" THEN "absent"
                 ELSE Subtype_as_str(block.subtype),
     block |-> [type |-> "state",
                account |-> encode_account(block.account),
                previous |-> to_hex(block.previous),
                representative |-> encode_account(block.representative),
                balance |-> to_string(block.balance),
                link |-> to_hex(block.link),
                link_as_account |-> encode_account(block.link),
                signature |-> IF block.signature = NoSignature THEN EmptyString
                              ELSE encode_upper(block.signature),
                work |-> IF block.work = None THEN EmptyString
                         ELSE to_hex(block.work)]]

\* the replies a node or a proxy can give: no reply, a body that is not
\* JSON, or a JSON object or array carrying any of these fields
ErrorStrings == {"Account not found", "Fork"}
OptionStrings == {"absent", "1", "0", "true"}
Replies ==
    [transport : {"failed"}, json : {"none"}, error : {"absent"},
     valid_all : {"absent"}, valid : {"absent"}, typed_ok : {FALSE}]
    \cup [transport : {"ok"}, json : {"invalid"}, error : {"absent"},
          valid_all : {"absent"}, valid : {"absent"}, typed_ok : {FALSE}]
    \cup [transport : {"ok"}, json : {"object", "array"},
          error : {"absent", "number"} \cup ErrorStrings,
          valid_all : OptionStrings, valid : OptionStrings,
          typed_ok : BOOLEAN]

\* check_error: json.get("error").and_then(as_str)
check_error(r) ==
    IF r.json = "object" /\ r.error \in ErrorStrings
    THEN [some |-> TRUE, msg |-> r.error]
    ELSE [some |-> FALSE, msg |-> ""]

\* RpcClient::request deserializing before it looks for an error
requestParseFirst(r) ==
    IF r.transport = "failed"
    THEN [err |-> "ConnectionFailed", msg |-> "", value |-> "none"]
    ELSE IF r.json = "invalid"
    THEN [err |-> "InvalidResponse", msg |-> "", value |-> "none"]
    ELSE IF r.typed_ok
    THEN [err |-> "Ok", msg |-> "", value |-> "typed"]
    ELSE IF check_error(r).some
    THEN [err |-> "NodeError", msg |-> check_error(r).msg, value |-> "none"]
    ELSE [err |-> "InvalidResponse", msg |-> "", value |-> "none"]

\* RpcClient::request
request_reply(r) ==
    IF r.transport = "failed"
    THEN [err |-> "ConnectionFailed", msg |-> "", value |-> "none"]
    ELSE IF r.json = "invalid"
    THEN [err |-> "InvalidResponse", msg |-> "", value |-> "none"]
    ELSE IF check_error(r).some
    THEN [err |-> "NodeError", msg |-> check_error(r).msg, value |-> "none"]
    ELSE IF ~r.typed_ok
    THEN [err |-> "InvalidResponse", msg |-> "", value |-> "none"]
    ELSE [err |-> "Ok", msg |-> "", value |-> "typed"]

\* Option::or and Option::unwrap_or_default on Option<String>
orValidFirst(a, b) == IF b # "absent" THEN b ELSE a
or(a, b) == IF a # "absent" THEN a ELSE b
unwrap_or_default(x) == IF x = "absent" THEN "" ELSE x

\* RpcClient::work_validate
work_validate(r) ==
    IF request_reply(r).err # "Ok" THEN request_reply(r)
    ELSE [err |-> "Ok", msg |-> "",
          value |-> IF unwrap_or_default(or(r.valid_all, r.valid)) = "1"
                    THEN "true" ELSE "false"]

NoCall == [method |-> "none", block |-> BlockBuilder_new]
NoRequest == [action |-> "none"]
NoReply == [transport |-> "pending"]
NoResult == [err |-> "pending", msg |-> "", value |-> "none"]

RpcIdle ==
    /\ call = NoCall
    /\ request = NoRequest
    /\ reply = NoReply
    /\ rpc_result = NoResult

NoReceiveAll ==
    [variant |-> "none", pc |-> "idle", shape |-> "none", entries |-> <<>>,
     k |-> 0, received |-> <<>>, calls |-> <<>>,
     result |-> [err |-> "pending", hashes |-> <<>>]]

RecvIdle == ra = NoReceiveAll

NoWs == [pos |-> 0, result |-> [kind |-> "idle", variant |-> "none", frame |-> 0]]

WsIdle ==
    /\ frames = <<>>
    /\ ws = NoWs

NetIdle ==
    /\ RpcIdle
    /\ RecvIdle
    /\ WsIdle

\* ------------------------------------------------- work/validate.rs

\* Blake2b-64 of (work_le || hash) read as a little-endian u64.  The digest is
\* stood in for by a fixed mixing function of the same signature; for hash 1
\* it never reaches U64_MAX, so a search can exhaust every range.
difficulty(w, h) == ((w * 7 + 3) * (h + 1)) % Modulus

\* mutant: the root is left out of the digest
validateNoRoot(w, h, t) == difficulty(w, 0) >= t
validate(w, h, t) == difficulty(w, h) >= t

\* ------------------------------------------------------ work/cpu.rs

\* rayon::current_num_threads()
current_num_threads == MaxThreads

num_threads == IF self_threads = 0 THEN current_num_threads ELSE self_threads

chunk_size == U64_MAX \div num_threads

start(i) == i * chunk_size

end(i) == IF i = num_threads - 1 THEN U64_MAX ELSE start(i) + chunk_size

\* the nonces of `for nonce in start..end`
range(i) == {n \in Nonces : start(i) <= n /\ n < end(i)}

\* mutant: a mask one bit too wide
AtPollWideMask(n) == n % (2 * PollPeriod) = 0
AtPoll(n) == n % PollPeriod = 0

CancelSet == cancelled = "set"

\* where the loop stands with its variable at n: past the end of the range
\* the closure returns None; otherwise it polls the flags or tests the nonce
LoopAt(i, n) ==
    IF n >= end(i) THEN "none"
    ELSE IF AtPoll(n) THEN "poll" ELSE "test"

Scanning(i) == wpc[i] \in {"poll", "test"}

\* a flag has just been set: every scanning worker starts counting
Flag(f) == [i \in Workers |-> f[i] \/ Scanning(i)]

InitPow ==
    /\ self_threads \in 0 .. MaxThreads
    /\ hash \in Hashes
    /\ threshold \in Thresholds
    /\ cancelled \in {"none", "unset", "set"}
    /\ cancelAtCall = (cancelled = "set")
    /\ found_flag = FALSE
    /\ wpc = [i \in Workers |-> IF i < num_threads THEN "queued" ELSE "absent"]
    /\ nonce = [i \in Workers |-> 0]
    /\ ret = [i \in Workers |-> NoNonce]
    /\ result = "running"
    /\ work = NoNonce
    /\ first = NoNonce
    /\ flagged = [i \in Workers |-> FALSE]
    /\ since = [i \in Workers |-> 0]
    /\ WalletIdle
    /\ AcctIdle
    /\ BuilderIdle
    /\ FactoryIdle
    /\ CodecIdle
    /\ NetIdle

\* the caller sets the AtomicBool it passed as `cancelled`
SetCancel ==
    /\ result = "running"
    /\ cancelled = "unset"
    /\ cancelled' = "set"
    /\ flagged' = Flag(flagged)
    /\ UNCHANGED <<self_threads, hash, threshold, found_flag, wpc, nonce, ret,
                   result, work, first, since, cancelAtCall>>
    /\ UNCHANGED notPow

\* rayon running item i only after item i - 1 has returned
StartWorkerInTurn(i) ==
    /\ result = "running"
    /\ wpc[i] = "queued"
    /\ i = 0 \/ wpc[i - 1] \in {"some", "none", "skipped"}
    /\ nonce' = [nonce EXCEPT ![i] = start(i)]
    /\ wpc' = [wpc EXCEPT ![i] = LoopAt(i, start(i))]
    /\ flagged' = [flagged EXCEPT ![i] =
                      LoopAt(i, start(i)) # "none" /\ (CancelSet \/ found_flag)]
    /\ UNCHANGED <<self_threads, hash, threshold, cancelled, found_flag, ret,
                   result, work, first, since, cancelAtCall>>
    /\ UNCHANGED notPow

\* rayon runs the closure for item i
StartWorker(i) ==
    /\ result = "running"
    /\ wpc[i] = "queued"
    /\ nonce' = [nonce EXCEPT ![i] = start(i)]
    /\ wpc' = [wpc EXCEPT ![i] = LoopAt(i, start(i))]
    /\ flagged' = [flagged EXCEPT ![i] =
                      LoopAt(i, start(i)) # "none" /\ (CancelSet \/ found_flag)]
    /\ UNCHANGED <<self_threads, hash, threshold, cancelled, found_flag, ret,
                   result, work, first, since, cancelAtCall>>
    /\ UNCHANGED notPow

\* find_map_any stops handing out items once some closure returned Some
SkipWorker(i) ==
    /\ result = "running"
    /\ wpc[i] = "queued"
    /\ \E j \in Workers : wpc[j] = "some"
    /\ wpc' = [wpc EXCEPT ![i] = "skipped"]
    /\ UNCHANGED <<self_threads, hash, threshold, cancelled, found_flag, nonce,
                   ret, result, work, first, flagged, since, cancelAtCall>>
    /\ UNCHANGED notPow

\* mutant: the found flag is not polled
PollCancelOnly(i) ==
    /\ result = "running"
    /\ wpc[i] = "poll"
    /\ wpc' = [wpc EXCEPT ![i] = IF CancelSet THEN "none" ELSE "test"]
    /\ UNCHANGED <<self_threads, hash, threshold, cancelled, found_flag, nonce,
                   ret, result, work, first, flagged, since, cancelAtCall>>
    /\ UNCHANGED notPow

\* `if nonce & 0xFFF == 0`: load the cancel flag, then the found flag
Poll(i) ==
    /\ result = "running"
    /\ wpc[i] = "poll"
    /\ wpc' = [wpc EXCEPT ![i] =
                  IF CancelSet \/ found_flag THEN "none" ELSE "test"]
    /\ UNCHANGED <<self_threads, hash, threshold, cancelled, found_flag, nonce,
                   ret, result, work, first, flagged, since, cancelAtCall>>
    /\ UNCHANGED notPow

\* `if WorkValidator::validate(work, hash, threshold)`: store the found flag
\* and return Some(nonce), or go on to the next nonce
Test(i) ==
    /\ result = "running"
    /\ wpc[i] = "test"
    /\ since' = [since EXCEPT ![i] = IF flagged[i] THEN @ + 1 ELSE @]
    /\ IF validate(nonce[i], hash, threshold)
       THEN /\ found_flag' = TRUE
            /\ ret' = [ret EXCEPT ![i] = nonce[i]]
            /\ wpc' = [wpc EXCEPT ![i] = "some"]
            /\ first' = IF first = NoNonce THEN nonce[i] ELSE first
            /\ flagged' = [j \in Workers |->
                              flagged[j] \/ (j # i /\ Scanning(j))]
            /\ UNCHANGED nonce
       ELSE /\ nonce' = [nonce EXCEPT ![i] = @ + 1]
            /\ wpc' = [wpc EXCEPT ![i] = LoopAt(i, nonce[i] + 1)]
            /\ UNCHANGED <<found_flag, ret, first, flagged>>
    /\ UNCHANGED <<self_threads, hash, threshold, cancelled, result, work,
                   cancelAtCall>>
    /\ UNCHANGED notPow

AllReturned == \A i \in Workers : wpc[i] \in {"absent", "some", "none", "skipped"}

Found == {ret[i] : i \in {j \in Workers : wpc[j] = "some"}}

\* what find_map_any may return: any one of the Some values, or None
find_map_any == IF Found = {} THEN {NoNonce} ELSE Found

\* mutant: the two errors swapped
MatchSwapped(r) ==
    IF r # NoNonce THEN "Ok"
    ELSE IF CancelSet THEN "MaxIterations" ELSE "Cancelled"
Match(r) ==
    IF r # NoNonce THEN "Ok"
    ELSE IF CancelSet THEN "Cancelled" ELSE "MaxIterations"

\* find_map_any returns and generate matches on its result
Return ==
    /\ result = "running"
    /\ AllReturned
    /\ \E r \in find_map_any :
          /\ result' = Match(r)
          /\ work' = IF Match(r) = "Ok" THEN r ELSE NoNonce
    /\ UNCHANGED <<self_threads, hash, threshold, cancelled, found_flag, wpc,
                   nonce, ret, first, flagged, since, cancelAtCall>>
    /\ UNCHANGED notPow

NextPow ==
    \/ SetCancel
    \/ \E i \in Workers : StartWorker(i)
    \/ \E i \in Workers : SkipWorker(i)
    \/ \E i \in Workers : Poll(i)
    \/ \E i \in Workers : Test(i)
    \/ Return

SpecPow == InitPow /\ [][NextPow]_vars

\* a step of the closure for item i
WorkerStep(i) == StartWorker(i) \/ SkipWorker(i) \/ Poll(i) \/ Test(i)

\* the pool keeps running some closure while one can run, and find_map_any
\* returns once all of them have; the caller need never cancel
FairSpecPow ==
    /\ SpecPow
    /\ WF_vars((\E i \in Workers : WorkerStep(i)) \/ Return)

\* ------------------------------------------- wallet/account.rs flows

PowIdle ==
    /\ self_threads = 1
    /\ hash = 0
    /\ threshold = 0
    /\ cancelled = "none"
    /\ cancelAtCall = FALSE
    /\ found_flag = FALSE
    /\ wpc = [i \in Workers |-> "absent"]
    /\ nonce = [i \in Workers |-> 0]
    /\ ret = [i \in Workers |-> NoNonce]
    /\ result = "idle"
    /\ work = NoNonce
    /\ first = NoNonce
    /\ flagged = [i \in Workers |-> FALSE]
    /\ since = [i \in Workers |-> 0]

InitWallet ==
    /\ op \in Ops
    /\ local \in BOOLEAN
    /\ amount \in Raws
    /\ target \in {0, 3}
    /\ new_representative = 1
    /\ fpc = "start"
    /\ info = NoInfo
    /\ root = None
    /\ work_response = NoWork
    /\ built = NoBuilt
    /\ submitted = BlockBuilder_new
    /\ log = <<>>
    /\ flow_result = "running"
    /\ PowIdle
    /\ AcctIdle
    /\ BuilderIdle
    /\ FactoryIdle
    /\ CodecIdle
    /\ NetIdle

\* self.address()
address == account_of(KeyPair)

\* BlockHash::from_bytes(*self.keypair.public_key().as_bytes())
pub_key_hash == KeyPair.public

\* mutant: every flow treats an info error as a new account
OnInfoErrAllOpen(o, e) == "work"
\* mutant: only the node's own error means a new account
OnInfoErrNodeOnly(o, e) == IF o = "receive" /\ e = "NodeError" THEN "work" ELSE "done"
\* `self.info(client).await?` returns the error; receive's `Err(_)` arm goes on
OnInfoErr(o, e) == IF o = "receive" THEN "work" ELSE "done"

\* mutant: work for an open block over its (zero) previous
WorkRootPrevious(i) == i.frontier
\* the hash handed to work_generate / generate_work
WorkRoot(i) == IF i.err = "Ok" THEN i.frontier ELSE pub_key_hash

\* info.representative.unwrap_or_else(|| self.address())
RepOrSelf(i) == IF i.representative = None THEN address ELSE i.representative

\* the block the flow creates and signs
CreateBlock(o, i, w) ==
    CASE o = "send" ->
            create_send_block(KeyPair, i.frontier, RepOrSelf(i), i.balance,
                              amount, target, w)
      [] o = "change" ->
            create_change_block(KeyPair, i.frontier, new_representative,
                                i.balance, w)
      [] o = "send_and_change" ->
            create_send_and_change(KeyPair, i.frontier, new_representative,
                                   i.balance, amount, target, w)
      [] o = "receive" /\ i.err = "Ok" ->
            create_receive_block(KeyPair, i.frontier, RepOrSelf(i), i.balance,
                                 amount, target, w)
      [] o = "receive" /\ i.err # "Ok" ->
            create_open_block(KeyPair, address, amount, target, w)

\* self.info(client): the account_info request goes out
InfoCall ==
    /\ fpc = "start"
    /\ fpc' = "info"
    /\ log' = Append(log, "account_info")
    /\ UNCHANGED <<op, local, amount, target, new_representative, info, root,
                   work_response, built, submitted, flow_result>>
    /\ UNCHANGED notWallet

\* .await on it: the reply, and what the flow does with an error
InfoReply ==
    /\ fpc = "info"
    /\ \E r \in InfoReplies :
          /\ info' = r
          /\ IF r.err = "Ok"
             THEN fpc' = "work" /\ UNCHANGED flow_result
             ELSE /\ fpc' = OnInfoErr(op, r.err)
                  /\ flow_result' =
                        IF OnInfoErr(op, r.err) = "done" THEN r.err ELSE flow_result
    /\ UNCHANGED <<op, local, amount, target, new_representative, root,
                   work_response, built, submitted, log>>
    /\ UNCHANGED notWallet

\* client.work_generate(&hash): the request goes out
WorkCall ==
    /\ fpc = "work"
    /\ ~local
    /\ root' = WorkRoot(info)
    /\ log' = Append(log, "work")
    /\ fpc' = "work_wait"
    /\ UNCHANGED <<op, local, amount, target, new_representative, info,
                   work_response, built, submitted, flow_result>>
    /\ UNCHANGED notWallet

\* .await? on it
WorkReply ==
    /\ fpc = "work_wait"
    /\ \E e \in RpcErrors \cup {"Ok"} :
          /\ work_response' = [err |-> e, work |-> IF e = "Ok" THEN WorkValue ELSE None]
          /\ fpc' = IF e = "Ok" THEN "build" ELSE "done"
          /\ flow_result' = IF e = "Ok" THEN flow_result ELSE e
    /\ UNCHANGED <<op, local, amount, target, new_representative, info, root,
                   built, submitted, log>>
    /\ UNCHANGED notWallet

\* self.generate_work(&hash, subtype)?: the search runs to its end with no
\* cancel flag, so it returns Ok(work) or WorkGeneration(MaxIterations)
LocalWork ==
    /\ fpc = "work"
    /\ local
    /\ root' = WorkRoot(info)
    /\ log' = Append(log, "work")
    /\ \E e \in {"Ok", "MaxIterations"} :
          /\ work_response' = [err |-> e, work |-> IF e = "Ok" THEN WorkValue ELSE None]
          /\ fpc' = IF e = "Ok" THEN "build" ELSE "done"
          /\ flow_result' = IF e = "Ok" THEN flow_result ELSE e
    /\ UNCHANGED <<op, local, amount, target, new_representative, info, built,
                   submitted>>
    /\ UNCHANGED notWallet

\* self.create_*(...): build and sign; `expect` panics on a build error
Build ==
    /\ fpc = "build"
    /\ built' = CreateBlock(op, info, work_response.work)
    /\ log' = Append(log, "build")
    /\ IF CreateBlock(op, info, work_response.work).err = "Ok"
       THEN fpc' = "process" /\ UNCHANGED flow_result
       ELSE fpc' = "done" /\ flow_result' = "panic"
    /\ UNCHANGED <<op, local, amount, target, new_representative, info, root,
                   work_response, submitted>>
    /\ UNCHANGED notWallet

\* client.process(block): the request goes out
ProcessCall ==
    /\ fpc = "process"
    /\ submitted' = built.block
    /\ log' = Append(log, "process")
    /\ fpc' = "process_wait"
    /\ UNCHANGED <<op, local, amount, target, new_representative, info, root,
                   work_response, built, flow_result>>
    /\ UNCHANGED notWallet

\* .await on it: the flow returns what process returned
ProcessReply ==
    /\ fpc = "process_wait"
    /\ \E e \in RpcErrors \cup {"Ok"} : flow_result' = e
    /\ fpc' = "done"
    /\ UNCHANGED <<op, local, amount, target, new_representative, info, root,
                   work_response, built, submitted, log>>
    /\ UNCHANGED notWallet

NextWallet ==
    \/ InfoCall
    \/ InfoReply
    \/ WorkCall
    \/ WorkReply
    \/ LocalWork
    \/ Build
    \/ ProcessCall
    \/ ProcessReply

SpecWallet == InitWallet /\ [][NextWallet]_vars


\* ----------------------------------- wallet/wallet.rs, concurrent flows

InitAccounts ==
    /\ seed \in Seeds
    /\ derived_accounts = <<>>
    /\ requested = {}
    /\ fl = [f \in Flows |-> IdleFlow]
    /\ ledger = [a \in Accounts |-> [height |-> 0, balance |-> RawMax]]
    /\ PowIdle
    /\ WalletIdle
    /\ BuilderIdle
    /\ FactoryIdle
    /\ CodecIdle
    /\ NetIdle

\* Wallet::account(index): the flow f gets a WalletAccount holding a clone
\* of the keypair
Account(f, index) ==
    /\ fl[f].pc = "idle"
    /\ derived_accounts' = get_keypair(derived_accounts, seed, index)
    /\ requested' = requested \cup {index}
    /\ fl' = [fl EXCEPT ![f] = [@ EXCEPT !.pc = "info", !.index = index,
                 !.keypair = derived_accounts'[index + 1]]]
    /\ UNCHANGED <<seed, ledger>>
    /\ UNCHANGED notAcct

\* Wallet::address(index)
Address(index) ==
    /\ derived_accounts' = get_keypair(derived_accounts, seed, index)
    /\ requested' = requested \cup {index}
    /\ UNCHANGED <<seed, fl, ledger>>
    /\ UNCHANGED notAcct

\* Wallet::keypair(index)
Keypair(index) ==
    /\ derived_accounts' = get_keypair(derived_accounts, seed, index)
    /\ requested' = requested \cup {index}
    /\ UNCHANGED <<seed, fl, ledger>>
    /\ UNCHANGED notAcct

\* Wallet::addresses(count)
Addresses(count) ==
    /\ derived_accounts' = addresses(derived_accounts, seed, count)
    /\ requested' = requested \cup 0 .. (count - 1)
    /\ UNCHANGED <<seed, fl, ledger>>
    /\ UNCHANGED notAcct

\* WalletAccount::send, `self.info(client).await?`: the node answers with
\* the account's frontier and balance
FlowInfo(f) ==
    /\ fl[f].pc = "info"
    /\ fl' = [fl EXCEPT ![f] = [@ EXCEPT !.pc = "create",
                 !.frontier = frontier_of(account_of(fl[f].keypair),
                                          ledger[account_of(fl[f].keypair)].height),
                 !.balance = ledger[account_of(fl[f].keypair)].balance]]
    /\ UNCHANGED <<seed, derived_accounts, requested, ledger>>
    /\ UNCHANGED notAcct

\* WalletAccount::send, work_generate and create_send
FlowCreate(f, amt, destination) ==
    /\ fl[f].pc = "create"
    /\ fl' = [fl EXCEPT ![f] = [@ EXCEPT !.pc = "process",
                 !.block = create_send_block(fl[f].keypair, fl[f].frontier,
                               account_of(fl[f].keypair), fl[f].balance, amt,
                               destination, WorkValue).block]]
    /\ UNCHANGED <<seed, derived_accounts, requested, ledger>>
    /\ UNCHANGED notAcct

\* WalletAccount::send, `client.process(block).await`: the node takes the
\* block when its previous is the account's frontier, and reports a fork
\* otherwise
FlowProcess(f) ==
    /\ fl[f].pc = "process"
    /\ IF fl[f].block.previous =
              frontier_of(fl[f].block.account, ledger[fl[f].block.account].height)
       THEN /\ ledger' = [ledger EXCEPT ![fl[f].block.account] =
                             [height |-> @.height + 1,
                              balance |-> fl[f].block.balance]]
            /\ fl' = [fl EXCEPT ![f] = [@ EXCEPT !.pc = "done", !.reply = "Ok"]]
       ELSE /\ ledger' = ledger
            /\ fl' = [fl EXCEPT ![f] = [@ EXCEPT !.pc = "done", !.reply = "Fork"]]
    /\ UNCHANGED <<seed, derived_accounts, requested>>
    /\ UNCHANGED notAcct

NextAccounts ==
    \/ \E f \in Flows, i \in Indices : Account(f, i)
    \/ \E i \in Indices : Address(i)
    \/ \E i \in Indices : Keypair(i)
    \/ \E n \in 0 .. (MaxIndex + 1) : Addresses(n)
    \/ \E f \in Flows : FlowInfo(f)
    \/ \E f \in Flows, amt \in {1, 2}, d \in {0, 3} : FlowCreate(f, amt, d)
    \/ \E f \in Flows : FlowProcess(f)

SpecAccounts == InitAccounts /\ [][NextAccounts]_vars


\* ------------------------------------------------ blocks/builder.rs calls

InitBuilder ==
    /\ bb = BlockBuilder_new
    /\ bpc = "building"
    /\ bres = NoBuilt
    /\ last_call = "new"
    /\ sig_calls = "none"
    /\ signed = BlockBuilder_new
    /\ PowIdle
    /\ WalletIdle
    /\ AcctIdle
    /\ FactoryIdle
    /\ CodecIdle
    /\ NetIdle

\* a setter: consumes the builder and returns it with one field replaced
Setter(b) ==
    /\ bpc = "building"
    /\ bb' = b
    /\ last_call' = "setter"
    /\ UNCHANGED <<bpc, bres, sig_calls, signed>>
    /\ UNCHANGED notBuilder

Builder_account(a) == Setter([bb EXCEPT !.account = a])
Builder_previous(h) == Setter([bb EXCEPT !.previous = h])
Builder_representative(a) == Setter([bb EXCEPT !.representative = a])
Builder_balance(r) == Setter([bb EXCEPT !.balance = r])
Builder_link(l) == Setter([bb EXCEPT !.link = l])
Builder_link_as_account(a) == Setter([bb EXCEPT !.link = a])
Builder_link_as_block(h) == Setter([bb EXCEPT !.link = h])
Builder_subtype(st) == Setter([bb EXCEPT !.subtype = st])
Builder_work(w) == Setter([bb EXCEPT !.work = w])

\* BlockBuilder::sign
Builder_sign(kp) ==
    /\ bpc = "building"
    /\ bb' = sign(bb, kp)
    /\ last_call' = "sign"
    /\ IF build_unsigned(bb).err = "Ok"
       THEN /\ sig_calls' = "stored"
            /\ signed' = bb'
       ELSE /\ sig_calls' = IF sig_calls = "none" THEN "noop" ELSE sig_calls
            /\ signed' = signed
    /\ UNCHANGED <<bpc, bres>>
    /\ UNCHANGED notBuilder

\* BlockBuilder::signature: a pre-computed signature
Builder_signature(sig) ==
    /\ bpc = "building"
    /\ bb' = [bb EXCEPT !.signature = sig]
    /\ last_call' = "setter"
    /\ sig_calls' = "stored"
    /\ signed' = BlockBuilder_new
    /\ UNCHANGED <<bpc, bres>>
    /\ UNCHANGED notBuilder

\* BlockBuilder::build
Builder_build ==
    /\ bpc = "building"
    /\ bres' = build(bb)
    /\ bpc' = "built"
    /\ last_call' = "build"
    /\ UNCHANGED <<bb, sig_calls, signed>>
    /\ UNCHANGED notBuilder

\* the values the calls are made with
AccountValues == {1, account_of(KeyPair)}
HashValues == {ZeroHash, 1}
BalanceValues == {RawZero, RawMax}
SubtypeValues == {"send", "change"}
PresetSignatures ==
    {sign_hash(hash_state_block(
         send_block_builder(account_of(KeyPair), 1, 1, RawZero, 1)), KeyPair)}

NextBuilder ==
    \/ \E a \in AccountValues : Builder_account(a)
    \/ \E h \in HashValues : Builder_previous(h)
    \/ \E a \in AccountValues : Builder_representative(a)
    \/ \E r \in BalanceValues : Builder_balance(r)
    \/ \E l \in HashValues : Builder_link(l)
    \/ \E a \in {1} : Builder_link_as_account(a)
    \/ \E h \in HashValues : Builder_link_as_block(h)
    \/ \E st \in SubtypeValues : Builder_subtype(st)
    \/ \E w \in {WorkValue} : Builder_work(w)
    \/ \E kp \in {KeyPair} : Builder_sign(kp)
    \/ \E sig \in PresetSignatures : Builder_signature(sig)
    \/ Builder_build

SpecBuilder == InitBuilder /\ [][NextBuilder]_vars


\* ------------------------------- blocks/state.rs, builder.rs factories

KeyPairs == {KeyPair, derive(0, 0)}

InitFactory ==
    /\ args \in [keypair : KeyPairs, previous : HashValues,
                 representative : {1}, balance : Raws, amount : Raws,
                 link : HashValues, work : {None, WorkValue},
                 previous_balance : Raws \cup {None}]
    /\ made = NoMade
    /\ PowIdle
    /\ WalletIdle
    /\ AcctIdle
    /\ BuilderIdle
    /\ CodecIdle
    /\ NetIdle

\* a constructor returns: the block, or the error build() gave
Make(kind, r) ==
    /\ made.kind = "none"
    /\ made' = [kind |-> kind, err |-> r.err, block |-> r.block,
                inferred |-> "None"]
    /\ UNCHANGED args
    /\ UNCHANGED notFactory

\* WalletAccount::create_send .. create_send_and_change
Create_send ==
    Make("create_send",
         create_send_block(args.keypair, args.previous, args.representative,
                           args.balance, args.amount, args.link, args.work))
Create_receive ==
    Make("create_receive",
         create_receive_block(args.keypair, args.previous, args.representative,
                              args.balance, args.amount, args.link, args.work))
Create_open ==
    Make("create_open",
         create_open_block(args.keypair, args.representative, args.amount,
                           args.link, args.work))
Create_change ==
    Make("create_change",
         create_change_block(args.keypair, args.previous, args.representative,
                             args.balance, args.work))
Create_send_and_change ==
    Make("create_send_and_change",
         create_send_and_change(args.keypair, args.previous,
                                args.representative, args.balance, args.amount,
                                args.link, args.work))

\* the pre-set builders, built as they are returned
Send_builder ==
    Make("send_block_builder",
         build(send_block_builder(account_of(args.keypair), args.previous,
                                  args.representative, args.balance, args.link)))
Receive_builder ==
    Make("receive_block_builder",
         build(receive_block_builder(account_of(args.keypair), args.previous,
                                     args.representative, args.balance, args.link)))
Open_builder ==
    Make("open_block_builder",
         build(open_block_builder(account_of(args.keypair), args.representative,
                                  args.balance, args.link)))
Change_builder ==
    Make("change_block_builder",
         build(change_block_builder(account_of(args.keypair), args.previous,
                                    args.representative, args.balance)))

\* StateBlock::new: a block as a caller parsing a third party's block has it
New_block ==
    Make("new",
         [err |-> "Ok",
          block |-> StateBlock_new(account_of(args.keypair), args.previous,
                                   args.representative, args.balance, args.link)])

\* block.infer_subtype(previous_balance) on the block made
Infer ==
    /\ made.kind # "none"
    /\ made.err = "Ok"
    /\ made.inferred = "None"
    /\ made' = [made EXCEPT
                   !.inferred = infer_subtype(made.block, args.previous_balance)]
    /\ UNCHANGED args
    /\ UNCHANGED notFactory

NextFactory ==
    \/ Create_send
    \/ Create_receive
    \/ Create_open
    \/ Create_change
    \/ Create_send_and_change
    \/ Send_builder
    \/ Receive_builder
    \/ Open_builder
    \/ Change_builder
    \/ New_block
    \/ Infer

SpecFactory == InitFactory /\ [][NextFactory]_vars


\* ------------------------------------------- types/account.rs, codec

InitCodec ==
    /\ addr \in [prefix : Prefixes,
                 data : UNION {[1 .. n -> Chars] : n \in PkChars .. (PkChars + 2)}]
    /\ decoded = NoDecoded
    /\ PowIdle
    /\ WalletIdle
    /\ AcctIdle
    /\ BuilderIdle
    /\ FactoryIdle
    /\ NetIdle

\* Account::from_address_str_checked: decode_account(s)
Decode ==
    /\ decoded.err = "pending"
    /\ decoded' = [err |-> decode_account(addr).err,
                   public_key |-> decode_account(addr).public_key,
                   encoded |-> NoAddr]
    /\ UNCHANGED addr
    /\ UNCHANGED notCodec

\* Account::from_public_key on the decoded key: encode_account
Encode ==
    /\ decoded.err = "Ok"
    /\ decoded.encoded = NoAddr
    /\ decoded' = [decoded EXCEPT !.encoded = encode_account(decoded.public_key)]
    /\ UNCHANGED addr
    /\ UNCHANGED notCodec

NextCodec ==
    \/ Decode
    \/ Encode

SpecCodec == InitCodec /\ [][NextCodec]_vars


\* ------------------------- types/account.rs, one bit of an address flipped

\* a bit of a symbol's value inverted, written back as an alphabet character
flip_bit(c, b) ==
    Alphabet[(IF (base32_char_value(c) \div Pow2(b)) % 2 = 1
              THEN base32_char_value(c) - Pow2(b)
              ELSE base32_char_value(c) + Pow2(b)) + 1]

\* the bits of one symbol
SymbolBits == {b \in 0 .. Base : Pow2(b) < Base}

InitFlip ==
    /\ \E pk \in PublicKeys, pre \in {"nano_", "xno_"} :
          addr = [encode_account(pk) EXCEPT !.prefix = pre]
    /\ decoded = NoDecoded
    /\ PowIdle
    /\ WalletIdle
    /\ AcctIdle
    /\ BuilderIdle
    /\ FactoryIdle
    /\ NetIdle

\* bit b of symbol k of the valid address is flipped; the address as it was
\* and its key are remembered
FlipBit(k, b) ==
    /\ decoded.err = "pending"
    /\ addr' = [addr EXCEPT !.data[k] = flip_bit(@, b)]
    /\ decoded' = [err |-> "flipped",
                   public_key |-> decode_account(addr).public_key,
                   encoded |-> addr]
    /\ UNCHANGED notCodec

\* Account::from_address_str_checked on the flipped string
DecodeFlipped ==
    /\ decoded.err = "flipped"
    /\ decoded' = [decoded EXCEPT !.err = decode_account(addr).err]
    /\ UNCHANGED addr
    /\ UNCHANGED notCodec

NextFlip ==
    \/ \E k \in 1 .. (PkChars + 1), b \in SymbolBits : FlipBit(k, b)
    \/ DecodeFlipped

SpecFlip == InitFlip /\ [][NextFlip]_vars


\* ------------------------------------------------- rpc/client.rs calls

Methods == {"process", "work_validate", "account_info"}

\* the blocks handed to process
ProcessBlocks ==
    [account : {account_of(KeyPair)}, previous : {1}, representative : {1},
     balance : {RawZero}, link : PublicKeys,
     subtype : {"None", "send", "receive", "open", "change", "epoch"},
     signature : {NoSignature} \cup PresetSignatures, work : {None, WorkValue}]

InitRpc ==
    /\ call \in [method : {"process"}, block : ProcessBlocks]
                \cup [method : Methods \ {"process"}, block : {BlockBuilder_new}]
    /\ request = NoRequest
    /\ reply = NoReply
    /\ rpc_result = NoResult
    /\ PowIdle
    /\ WalletIdle
    /\ AcctIdle
    /\ BuilderIdle
    /\ FactoryIdle
    /\ CodecIdle
    /\ RecvIdle
    /\ WsIdle

\* the request of the method: ProcessRequest::new(block), or the action name
BuildRequest ==
    /\ request = NoRequest
    /\ request' = IF call.method = "process" THEN ProcessRequest_new(call.block)
                  ELSE [action |-> call.method]
    /\ UNCHANGED <<call, reply, rpc_result>>
    /\ UNCHANGED notRpc

\* the reply arrives and the method returns
Respond(r) ==
    /\ request # NoRequest
    /\ reply = NoReply
    /\ reply' = r
    /\ rpc_result' = IF call.method = "work_validate" THEN work_validate(r)
                     ELSE request_reply(r)
    /\ UNCHANGED <<call, request>>
    /\ UNCHANGED notRpc

NextRpc ==
    \/ BuildRequest
    \/ \E r \in Replies : Respond(r)

SpecRpc == InitRpc /\ [][NextRpc]_vars


\* ------------------------------------------------- websocket/client.rs

MaxFrames == 2

Topics ==
    {"confirmation", "vote", "stopped_election", "active_difficulty",
     "telemetry", "work"}

\* what the stream yields: Some(Ok(Text)), Some(Ok(Binary)), Some(Ok(Close))
\* or Some(Err); a text frame deserializes as IncomingMessage (envelope) or
\* not, and the body of an envelope deserializes as its topic's type or not
Frames ==
    [kind : {"text"}, envelope : {TRUE}, topic : Topics \cup {"other"},
     body_ok : BOOLEAN]
    \cup [kind : {"text", "binary", "close", "error"}, envelope : {FALSE},
          topic : {"none"}, body_ok : {FALSE}]

\* IncomingMessage::parse trusting the topic
parseTopicOnly(m) ==
    CASE m.topic = "confirmation" -> "Confirmation"
      [] m.topic = "vote" -> "Vote"
      [] m.topic = "stopped_election" -> "StoppedElection"
      [] m.topic = "active_difficulty" -> "ActiveDifficulty"
      [] m.topic = "telemetry" -> "Telemetry"
      [] m.topic = "work" -> "Work"
      [] OTHER -> "Unknown"

\* IncomingMessage::parse
parse(m) ==
    CASE m.topic = "confirmation" ->
             IF m.body_ok THEN "Confirmation" ELSE "Unknown"
      [] m.topic = "vote" ->
             IF m.body_ok THEN "Vote" ELSE "Unknown"
      [] m.topic = "stopped_election" ->
             IF m.body_ok THEN "StoppedElection" ELSE "Unknown"
      [] m.topic = "active_difficulty" ->
             IF m.body_ok THEN "ActiveDifficulty" ELSE "Unknown"
      [] m.topic = "telemetry" ->
             IF m.body_ok THEN "Telemetry" ELSE "Unknown"
      [] m.topic = "work" ->
             IF m.body_ok THEN "Work" ELSE "Unknown"
      [] OTHER -> "Unknown"

InitWs ==
    /\ frames \in UNION {[1..n -> Frames] : n \in 0..MaxFrames}
    /\ ws = NoWs
    /\ PowIdle
    /\ WalletIdle
    /\ AcctIdle
    /\ BuilderIdle
    /\ FactoryIdle
    /\ CodecIdle
    /\ RpcIdle
    /\ RecvIdle

Receiving == ws.result.kind = "idle"
NextFrame == frames[ws.pos + 1]

\* Message::Text delivering whatever the text is
RecvTextAny ==
    /\ Receiving
    /\ ws.pos < Len(frames)
    /\ NextFrame.kind = "text"
    /\ ws' = [pos |-> ws.pos + 1,
              result |-> [kind |-> "Some", variant |-> parse(NextFrame),
                          frame |-> ws.pos + 1]]
    /\ UNCHANGED frames
    /\ UNCHANGED notWs

\* Some(Ok(Message::Text(text)))
RecvText ==
    /\ Receiving
    /\ ws.pos < Len(frames)
    /\ NextFrame.kind = "text"
    /\ ws' = IF NextFrame.envelope
             THEN [pos |-> ws.pos + 1,
                   result |-> [kind |-> "Some", variant |-> parse(NextFrame),
                               frame |-> ws.pos + 1]]
             ELSE [ws EXCEPT !.pos = ws.pos + 1]
    /\ UNCHANGED frames
    /\ UNCHANGED notWs

\* Some(Ok(Message::Binary(_)))
RecvBinary ==
    /\ Receiving
    /\ ws.pos < Len(frames)
    /\ NextFrame.kind = "binary"
    /\ ws' = [ws EXCEPT !.pos = ws.pos + 1]
    /\ UNCHANGED frames
    /\ UNCHANGED notWs

\* Some(Ok(Message::Close(_)))
RecvClose ==
    /\ Receiving
    /\ ws.pos < Len(frames)
    /\ NextFrame.kind = "close"
    /\ ws' = [pos |-> ws.pos + 1,
              result |-> [kind |-> "None", variant |-> "none",
                          frame |-> ws.pos + 1]]
    /\ UNCHANGED frames
    /\ UNCHANGED notWs

\* Some(Err(e))
RecvError ==
    /\ Receiving
    /\ ws.pos < Len(frames)
    /\ NextFrame.kind = "error"
    /\ ws' = [pos |-> ws.pos + 1,
              result |-> [kind |-> "Err", variant |-> "ConnectionFailed",
                          frame |-> ws.pos + 1]]
    /\ UNCHANGED frames
    /\ UNCHANGED notWs

\* None: the stream has ended
RecvEnd ==
    /\ Receiving
    /\ ws.pos = Len(frames)
    /\ ws' = [ws EXCEPT !.result = [kind |-> "None", variant |-> "none",
                                    frame |-> 0]]
    /\ UNCHANGED frames
    /\ UNCHANGED notWs

NextWs ==
    \/ RecvText
    \/ RecvBinary
    \/ RecvClose
    \/ RecvError
    \/ RecvEnd

SpecWs == InitWs /\ [][NextWs]_vars

\* receive is polled until it returns
FairSpecWs == SpecWs /\ WF_vars(NextWs)


\* ------------------------------------------------- wallet/account.rs receive_all

MaxEntries == 3

\* receivable.blocks.get(&account_key): no entry, a JSON object, a JSON
\* array, or another JSON value (the node sends "" for an empty account)
Shapes == {"absent", "object", "array", "other"}

\* members of the object: the key parses as a block hash or not, the value
\* is an amount string, a string that is no amount, an object with an
\* "amount" string, an object without one, or something else
ObjectEntries ==
    [key_ok : BOOLEAN,
     value : {"amount", "bad_amount", "obj_amount", "obj_no_amount", "other"}]

\* elements of the array: a string that parses as a block hash or not, or
\* no string
ArrayEntries ==
    [key_ok : BOOLEAN, value : {"hash"}]
    \cup [key_ok : {FALSE}, value : {"other"}]

EntriesOf(S) == UNION {[1..n -> S] : n \in 0..MaxEntries}

\* response.hash of the receive block made for source entry i
processed(i) == <<"receive", i>>

InitRecv ==
    /\ \E v \in {"receive_all", "receive_all_local"}, sh \in Shapes :
        \E es \in CASE sh = "object" -> EntriesOf(ObjectEntries)
                    [] sh = "array" -> EntriesOf(ArrayEntries)
                    [] OTHER -> {<<>>} :
            ra = [variant |-> v, pc |-> "start", shape |-> sh, entries |-> es,
                  k |-> 0, received |-> <<>>, calls |-> <<>>,
                  result |-> [err |-> "pending", hashes |-> <<>>]]
    /\ PowIdle
    /\ WalletIdle
    /\ AcctIdle
    /\ BuilderIdle
    /\ FactoryIdle
    /\ CodecIdle
    /\ RpcIdle
    /\ WsIdle

Fail(e) == [err |-> e, hashes |-> <<>>]

\* self.receivable(100, client).await? and the choice of the branch
Receivable(ok) ==
    /\ ra.pc = "start"
    /\ ra' = IF ~ok
             THEN [ra EXCEPT !.pc = "done", !.result = Fail("Rpc")]
             ELSE IF ra.shape = "object"
                     \/ (ra.shape = "array" /\ ra.variant = "receive_all")
             THEN [ra EXCEPT !.pc = "loop", !.k = 1]
             ELSE [ra EXCEPT !.pc = "done",
                             !.result = [err |-> "Ok", hashes |-> <<>>]]
    /\ UNCHANGED notRecv

\* one iteration that goes on to the next entry after a failed receive
EntryKeepGoing(info_ok, recv_ok) ==
    /\ ra.pc = "loop"
    /\ ra.k <= Len(ra.entries)
    /\ LET e == ra.entries[ra.k]
           next == [ra EXCEPT !.k = ra.k + 1]
           called == [ra EXCEPT !.calls = Append(ra.calls,
                                                 [src |-> ra.k, ok |-> recv_ok])]
           pushed == [called EXCEPT !.k = ra.k + 1,
                                    !.received = Append(ra.received,
                                                        processed(ra.k))]
           skipped == [called EXCEPT !.k = ra.k + 1]
       IN ra' = IF ra.shape = "array" /\ e.value = "other" THEN next
                ELSE IF ~e.key_ok
                THEN [ra EXCEPT !.pc = "done",
                                !.result = Fail("InvalidBlockHash")]
                ELSE IF e.value = "bad_amount"
                THEN [ra EXCEPT !.pc = "done",
                                !.result = Fail("InvalidAmount")]
                ELSE IF e.value \in {"obj_no_amount", "other"} THEN next
                ELSE IF e.value = "hash" /\ ~info_ok
                THEN [ra EXCEPT !.pc = "done", !.result = Fail("BlockInfo")]
                ELSE IF ~recv_ok THEN skipped
                ELSE pushed
    /\ UNCHANGED notRecv

\* one iteration of `for (hash_str, value) in obj` or `for hash_val in arr`
Entry(info_ok, recv_ok) ==
    /\ ra.pc = "loop"
    /\ ra.k <= Len(ra.entries)
    /\ LET e == ra.entries[ra.k]
           next == [ra EXCEPT !.k = ra.k + 1]
           called == [ra EXCEPT !.calls = Append(ra.calls,
                                                 [src |-> ra.k, ok |-> recv_ok])]
           pushed == [called EXCEPT !.k = ra.k + 1,
                                    !.received = Append(ra.received,
                                                        processed(ra.k))]
           failed == [called EXCEPT !.pc = "done", !.result = Fail("Receive")]
       IN ra' = IF ra.shape = "array" /\ e.value = "other" THEN next
                ELSE IF ~e.key_ok
                THEN [ra EXCEPT !.pc = "done",
                                !.result = Fail("InvalidBlockHash")]
                ELSE IF e.value = "bad_amount"
                THEN [ra EXCEPT !.pc = "done",
                                !.result = Fail("InvalidAmount")]
                ELSE IF e.value \in {"obj_no_amount", "other"} THEN next
                ELSE IF e.value = "hash" /\ ~info_ok
                THEN [ra EXCEPT !.pc = "done", !.result = Fail("BlockInfo")]
                ELSE IF ~recv_ok THEN failed
                ELSE pushed
    /\ UNCHANGED notRecv

\* Ok(received)
ReturnReceived ==
    /\ ra.pc = "loop"
    /\ ra.k > Len(ra.entries)
    /\ ra' = [ra EXCEPT !.pc = "done",
                        !.result = [err |-> "Ok", hashes |-> ra.received]]
    /\ UNCHANGED notRecv

NextRecv ==
    \/ \E ok \in BOOLEAN : Receivable(ok)
    \/ \E info_ok \in BOOLEAN, recv_ok \in BOOLEAN : Entry(info_ok, recv_ok)
    \/ ReturnReceived

SpecRecv == InitRecv /\ [][NextRecv]_vars

\* ------------------------------------------------- proof-of-work claims

Exhausted(i) == wpc[i] = "none" /\ nonce[i] >= end(i)
StoppedAtPoll(i) == wpc[i] = "none" /\ nonce[i] < end(i)
Returned == result # "running"

\* C1: whenever generate returns Ok(work), difficulty(work, root) >= threshold,
\* for every root, threshold, worker count and interleaving of the workers.
C1_PowValidity == result = "Ok" => difficulty(work, hash) >= threshold

C1_Witness ==
    /\ result = "Ok" /\ threshold > 0 /\ hash = 1
    /\ \E i \in Workers : i > 0 /\ wpc[i] = "some" /\ ret[i] = work

\* C3: generate returns Ok(work) exactly when some worker found a satisfying
\* nonce; Cancelled exactly when none did and the cancel flag is set; and
\* MaxIterations exactly when none did and the cancel flag is not set, in
\* which case every worker has exhausted its range.
C3_Outcomes ==
    Returned =>
        /\ (result = "Ok") <=> (Found # {})
        /\ result = "Ok" => work \in Found
        /\ (result = "Cancelled") <=> (Found = {} /\ CancelSet)
        /\ (result = "MaxIterations") <=> (Found = {} /\ ~CancelSet)
        /\ result = "MaxIterations" =>
              \A i \in Workers : i < num_threads => Exhausted(i)

C3_Witness ==
    /\ result = "MaxIterations" /\ num_threads > 1 /\ cancelled = "unset"
    /\ \A i \in Workers : i < num_threads => Exhausted(i)

\* C4: once the cancel flag or the found flag is set, a worker still scanning
\* returns None at its next poll, having tested at most 4096 (PollPeriod)
\* further nonces; a cancelled search in which no worker found a nonce
\* returns Cancelled.
C4_StopWithinPeriod ==
    /\ [](\A i \in Workers : since[i] <= PollPeriod)
    /\ [](Returned /\ CancelSet /\ Found = {} => result = "Cancelled")
    /\ [][\A i \in Workers :
            (CancelSet \/ found_flag) /\ wpc[i] = "poll" /\ wpc'[i] # "poll"
                => wpc'[i] = "none" /\ ret'[i] = NoNonce]_vars

C4_Witness ==
    /\ result = "Cancelled" /\ ~cancelAtCall
    /\ \E i \in Workers : StoppedAtPoll(i) /\ since[i] = PollPeriod

\* C5: for every worker count W the ranges are contiguous and pairwise
\* disjoint, each of the first W-1 holds floor(2^64 / W) nonces, and together
\* they cover [0, 2^64), the last one holding the nonce 2^64-1.
C5_Partition ==
    /\ \A i \in Workers : i + 1 < num_threads =>
          /\ end(i) = start(i + 1)
          /\ Cardinality(range(i)) = Modulus \div num_threads
    /\ \A i, j \in Workers :
          i < j /\ j < num_threads => range(i) \cap range(j) = {}
    /\ UNION {range(i) : i \in {j \in Workers : j < num_threads}} = Nonces
    /\ U64_MAX \in range(num_threads - 1)

\* C6 as stated: the nonce returned is the one found by the first worker to
\* find a satisfying nonce.
C6_FirstFinderWins == result = "Ok" => work = first

\* C6, amended: the nonce returned is one found by a worker that found a
\* satisfying nonce, the first finder's whenever no other worker found one
\* too; and once the found flag is set every other worker still scanning
\* returns no later than its next poll, where it returns None.
C6_SomeFinderWins ==
    /\ [](result = "Ok" =>
            /\ work \in Found
            /\ first \in Found
            /\ Cardinality(Found) = 1 => work = first)
    /\ [](\A i \in Workers : wpc[i] = "some" => validate(ret[i], hash, threshold))
    /\ [](found_flag => \A i \in Workers : since[i] <= PollPeriod)
    /\ [][\A i \in Workers :
            found_flag /\ wpc[i] = "poll" /\ wpc'[i] # "poll"
                => wpc'[i] = "none" /\ ret'[i] = NoNonce]_vars

C6_Witness ==
    /\ result = "Ok" /\ cancelled = "none" /\ Cardinality(Found) = 1
    /\ \E i \in Workers : StoppedAtPoll(i) /\ since[i] > 0

\* C7: if the cancel flag is set when generate is called and stays set,
\* generate returns Cancelled and never Ok.
C7_PresetCancel == cancelAtCall /\ Returned => result = "Cancelled"


\* ------------------------------------------------------ wallet claims

SendLike == op \in {"send", "change", "send_and_change"}
Steps == <<"account_info", "work", "build", "process">>
Started(step) == \E k \in 1 .. Len(log) : log[k] = step

C8_OpenOnInfoError ==
    op = "receive" =>
        /\ info.err \in RpcErrors => fpc # "done" \/ Started("work")
        /\ Started("process") =>
              /\ (info.err # "Ok") <=> (submitted.subtype = "open")
              /\ info.err # "Ok" =>
                    /\ submitted.previous = ZeroHash
                    /\ submitted.link = target
                    /\ submitted.balance = amount
                    /\ submitted.representative = address
                    /\ submitted.account = address
              /\ info.err = "Ok" =>
                    /\ submitted.subtype = "receive"
                    /\ submitted.previous = info.frontier
                    /\ submitted.link = target

C8_Witness ==
    /\ op = "receive" /\ Started("process")
    /\ info.err = "ConnectionFailed"
    /\ submitted.subtype = "open" /\ submitted.balance > 0

\* C9: for every block a wallet flow submits, the hash work was requested or
\* computed over is the block's previous when previous is non-zero, and the
\* account's public key bytes when the block is an open block.
C9_WorkRoot ==
    Started("process") =>
        /\ submitted.previous # ZeroHash => root = submitted.previous
        /\ submitted.subtype = "open" => root = KeyPair.public

C9_Witness ==
    /\ Started("process") /\ submitted.subtype = "open"
    /\ root = KeyPair.public /\ root # submitted.previous

\* C10: the built block's balance is current - amount, or 0 when amount is
\* larger, for send and send_and_change; current + amount capped at the
\* largest Raw for receive; current for change; amount for open.  Nothing
\* wraps around and no constructor fails.
C10_Balance ==
    /\ flow_result # "panic"
    /\ Started("build") =>
          /\ built.err = "Ok"
          /\ built.block.balance \in Raws
          /\ op \in {"send", "send_and_change"} =>
                built.block.balance =
                    IF amount <= info.balance THEN info.balance - amount ELSE 0
          /\ op = "receive" /\ info.err = "Ok" =>
                built.block.balance =
                    IF info.balance + amount <= RawMax
                    THEN info.balance + amount ELSE RawMax
          /\ op = "change" => built.block.balance = info.balance
          /\ op = "receive" /\ info.err # "Ok" => built.block.balance = amount

C10_Witness ==
    /\ Started("build") /\ op = "send_and_change"
    /\ amount > info.balance /\ info.balance > 0
    /\ built.block.balance = 0

\* ---------------------------------- wallet cache and concurrent flows claims

\* the flow has handed its block to client.process
Submitted(f) == fl[f].pc = "done"

\* two different flows whose submitted blocks name the same account and the
\* same previous
SameRoot(f, g) ==
    /\ f # g
    /\ Submitted(f)
    /\ Submitted(g)
    /\ fl[f].block.account = fl[g].block.account
    /\ fl[f].block.previous = fl[g].block.previous

\* C11: two concurrent wallet flows submit blocks with the same account and
\* the same previous only when they run on the same account index; flows on
\* different indices never do, under any interleaving
C11_ForkOnlySameIndex ==
    \A f, g \in Flows : SameRoot(f, g) => fl[f].index = fl[g].index

\* two flows on the same index have both submitted a block on the same
\* frontier, and the node reported the fork to the later one
C11_Witness ==
    \E f, g \in Flows :
        /\ SameRoot(f, g)
        /\ fl[f].index = fl[g].index
        /\ fl[f].reply = "Ok"
        /\ fl[g].reply = "Fork"

Largest(S) == CHOOSE x \in S : \A y \in S : y <= x

\* the cache holds the keypairs of 0 ..= m, m the largest index requested
CacheExact ==
    /\ Len(derived_accounts) =
           IF requested = {} THEN 0 ELSE Largest(requested) + 1
    /\ \A k \in 1 .. Len(derived_accounts) :
           derived_accounts[k] = derive(seed, k - 1)

\* a step keeps every entry the cache holds
CacheKept ==
    /\ Len(derived_accounts') >= Len(derived_accounts)
    /\ \A k \in 1 .. Len(derived_accounts) :
           derived_accounts'[k] = derived_accounts[k]

\* C12: after any sequence of account, address, keypair and addresses calls
\* the cache holds exactly the keypairs of the indices 0 ..= m, m the
\* largest index requested so far, entry k is derive(seed, k), and no entry
\* is ever removed or replaced
C12_Cache == []CacheExact /\ [][CacheKept]_vars

\* only the largest index was asked for, and the cache holds every index
\* up to it
C12_Witness ==
    /\ requested = {MaxIndex}
    /\ Len(derived_accounts) = MaxIndex + 1
    /\ derived_accounts[1] = derive(seed, 0)

\* ------------------------------------------------------- builder claims

RequiredFields == <<"account", "previous", "representative", "balance", "link">>

\* the positions of the required fields the builder has not been given
Unset(b) == {k \in 1 .. Len(RequiredFields) : b[RequiredFields[k]] = None}

Built == bpc = "built"

Smallest(S) == CHOOSE x \in S : \A y \in S : x <= y

\* C13: build returns Ok exactly when account, previous, representative,
\* balance and link are all set, and otherwise MissingField(name) for the
\* first unset field in that order; it returns in either case
C13_BuildResult ==
    Built =>
        /\ bres.err = "Ok" <=> Unset(bb) = {}
        /\ Unset(bb) # {} =>
               bres.err = RequiredFields[Smallest(Unset(bb))]
        /\ bres.err = "Ok" => bres.block = bb

\* build was called with account and link unset and reported the account
C13_Witness ==
    /\ Built
    /\ Unset(bb) = {1, 5}
    /\ bres.err = "account"

\* a sign() call on a builder lacking a required field changes no field
SignKeepsIncomplete ==
    last_call' = "sign" /\ Unset(bb) # {} => bb' = bb

\* when every sign() call so far met a builder lacking a field, and the
\* fields are all set by the time of build(), build() is Ok without signature
UnsignedBuild ==
    Built /\ sig_calls = "noop" /\ Unset(bb) = {} =>
        /\ bres.err = "Ok"
        /\ bres.block.signature = NoSignature

\* C14: sign(keypair) on a builder that lacks any of the five required
\* fields leaves every builder field unchanged, storing no signature and
\* reporting no error; when the missing fields are supplied afterwards and
\* sign is not called again, build() returns Ok with signature None
C14_SignNoop == [][SignKeepsIncomplete]_vars /\ []UnsignedBuild

\* sign() met an incomplete builder, the fields were supplied later, and
\* build() returned an unsigned block
C14_Witness ==
    /\ Built
    /\ sig_calls = "noop"
    /\ bres.err = "Ok"
    /\ bres.block.signature = NoSignature
    /\ bres.block.work = WorkValue

\* the hashed fields in which the built block differs from the block that
\* sign() saw
Changed ==
    {k \in 1 .. Len(RequiredFields) :
        bres.block[RequiredFields[k]] # signed[RequiredFields[k]]}

\* build() returned a block that still carries the signature sign() stored
\* on a block it verified for
KeptSignature ==
    /\ Built
    /\ bres.err = "Ok"
    /\ signed # BlockBuilder_new
    /\ verify(signed)
    /\ bres.block.signature = signed.signature

\* C15: changing any hashed field (account, previous, representative,
\* balance, link) of a signed block while keeping its signature makes
\* BlockSigner::verify return false, and changing subtype or work does not;
\* builder setters called after sign() neither clear nor recompute the
\* stored signature
C15_TamperDetected ==
    KeptSignature => (verify(bres.block) <=> Changed = {})

\* the link was set again after sign(), the signature stayed, and verify
\* fails
C15_Witness ==
    /\ KeptSignature
    /\ Changed = {5}
    /\ ~verify(bres.block)

\* ------------------------------------------------------- factory claims

CreateKinds ==
    {"create_send", "create_receive", "create_open", "create_change",
     "create_send_and_change"}
BuilderKinds ==
    {"send_block_builder", "receive_block_builder", "open_block_builder",
     "change_block_builder"}

\* C16: every block returned by create_send, create_receive, create_open,
\* create_change and create_send_and_change, for any arguments, carries a
\* signature for which BlockSigner::verify returns true, and these
\* constructors never fail
C16_CreatedVerifies ==
    made.kind \in CreateKinds => made.err = "Ok" /\ verify(made.block)

\* a send of more than the balance, with work attached, came back signed
C16_Witness ==
    /\ made.kind = "create_send"
    /\ args.amount > args.balance
    /\ args.work # None
    /\ made.block.balance = RawZero
    /\ verify(made.block)

\* C17: for every StateBlock built through the block factories, with any
\* arguments, previous is zero if and only if the subtype is Open
C17_PreviousZeroIffOpen ==
    made.kind \in CreateKinds \cup BuilderKinds =>
        (made.block.previous = ZeroHash <=> made.block.subtype = "open")

\* C18 as stated: for every StateBlock built by the library with a non-zero
\* previous, a zero link implies that the subtype is Change
C18_ZeroLinkIsChange ==
    made.kind \in CreateKinds \cup BuilderKinds =>
        (made.block.previous # ZeroHash /\ made.block.link = ZeroHash
             => made.block.subtype = "change")

ChangeKinds == {"create_change", "change_block_builder"}

\* C18, amended: a block built by the library with a non-zero previous and
\* a zero link has subtype Change exactly when a change factory built it
\* (the send and receive factories keep Send and Receive for the all-zero
\* destination or source), and infer_subtype infers Change for it
C18_ZeroLinkChangeFactory ==
    /\ made.kind \in CreateKinds \cup BuilderKinds
    /\ made.block.previous # ZeroHash
    /\ made.block.link = ZeroHash
    => /\ made.block.subtype = "change" <=> made.kind \in ChangeKinds
       /\ made.inferred \in {"None", "change"}

\* a send to the all-zero account on a non-zero previous: subtype Send,
\* inferred Change
C18_Witness ==
    /\ made.kind = "create_send"
    /\ made.block.previous # ZeroHash
    /\ made.block.link = ZeroHash
    /\ made.block.subtype = "send"
    /\ made.inferred = "change"

\* C19: infer_subtype returns Open when previous is zero; otherwise Change
\* when link is zero; otherwise, with a known previous balance, Send if the
\* balance is below it, Receive if above, Change if equal; with an unknown
\* previous balance, Send. It never returns Epoch
C19_Inferred ==
    made.inferred # "None" =>
        made.inferred =
            CASE made.block.previous = ZeroHash -> "open"
              [] made.block.previous # ZeroHash /\ made.block.link = ZeroHash
                    -> "change"
              [] OTHER ->
                    IF args.previous_balance = None THEN "send"
                    ELSE IF made.block.balance < args.previous_balance THEN "send"
                    ELSE IF made.block.balance > args.previous_balance THEN "receive"
                    ELSE "change"

\* a third party's block whose balance is above the known previous balance
\* was inferred to be a receive
C19_Witness ==
    /\ made.kind = "new"
    /\ args.previous_balance # None
    /\ made.block.balance > args.previous_balance
    /\ made.inferred = "receive"

\* --------------------------------------------------------- codec claims

Encoded == decoded.encoded # NoAddr

\* C20 as stated: for every string s that account decoding accepts, whatever
\* its prefix and letter case, encoding the decoded public key yields
\* exactly s
C20_RoundTrip == Encoded => decoded.encoded = addr

\* the form encode_account emits: the nano_ prefix, characters of the lower
\* case alphabet, and no padding bit set in the first character
Canonical(a) ==
    /\ a.prefix = "nano_"
    /\ \A k \in 1 .. Len(a.data) : \E j \in 1 .. Base : a.data[k] = Alphabet[j]
    /\ a.data[1] \in {"1", "3"}

\* C20, amended: for every string s that account decoding accepts, encoding
\* the decoded public key yields exactly s if and only if s has the nano_
\* prefix, no upper case letter and a first key character of 1 or 3; in
\* every case the encoding decodes to the same public key
C20_RoundTripCanonical ==
    Encoded =>
        /\ decoded.encoded = addr <=> Canonical(addr)
        /\ decode_account(decoded.encoded).err = "Ok"
        /\ decode_account(decoded.encoded).public_key = decoded.public_key

\* an accepted nano_ string with a letter in it came back character for
\* character
C20_Witness ==
    /\ Encoded
    /\ Canonical(addr)
    /\ \E k \in 1 .. Len(addr.data) : addr.data[k] = "a"
    /\ decoded.encoded = addr

\* C21: taking any valid address and flipping any single bit of any one of
\* its symbols (payload or checksum), so that the result is still an
\* alphabet-valid string of the same length, makes decoding fail with
\* ChecksumMismatch
C21_FlipDetected ==
    decoded.err \notin {"pending", "flipped"} => decoded.err = "ChecksumMismatch"

AccountErrors ==
    {"InvalidPrefix", "InvalidLength", "InvalidEncoding", "ChecksumMismatch"}

\* C22: parsing any string as an Account returns Ok or exactly one typed
\* AccountError, checked in the order InvalidPrefix, InvalidLength,
\* InvalidEncoding, ChecksumMismatch; no input string, multi-byte characters
\* included, causes a panic
C22_ParseResult ==
    decoded.err # "pending" =>
        /\ decoded.err \in AccountErrors \cup {"Ok"}
        /\ decoded.err =
             IF addr.prefix \notin {"nano_", "xno_"} THEN "InvalidPrefix"
             ELSE IF byte_len(addr.data) # PkChars + 1 THEN "InvalidLength"
             ELSE IF \E k \in 1 .. Len(addr.data) :
                         base32_char_value(addr.data[k]) = None
                  THEN "InvalidEncoding"
             ELSE IF decoded.err = "Ok" THEN "Ok"
             ELSE "ChecksumMismatch"

\* ----------------------------------------------------------- rpc claims

Replied == reply # NoReply

\* the reply is a JSON object whose "error" field is a string
HasErrorString ==
    /\ reply.transport = "ok"
    /\ reply.json = "object"
    /\ reply.error \in ErrorStrings

\* C23: for every RPC call, a reply whose top-level JSON object has a string
\* field "error" yields Err(Rpc(NodeError(message))) whatever other fields
\* the reply carries; the typed response is never returned for such a
\* reply, and a reply without that field is never reported as NodeError
C23_NodeError ==
    Replied =>
        /\ HasErrorString =>
               rpc_result.err = "NodeError" /\ rpc_result.msg = reply.error
        /\ rpc_result.err = "NodeError" => HasErrorString

\* a reply that would deserialize, with valid_all "1" and an error string,
\* came back as NodeError
C23_Witness ==
    /\ Replied
    /\ HasErrorString
    /\ reply.typed_ok
    /\ reply.valid_all = "1"
    /\ call.method = "work_validate"
    /\ rpc_result.err = "NodeError"

\* C24: work_validate returns true iff valid_all equals "1" when valid_all
\* is present, and otherwise iff valid equals "1"; when both are present
\* valid_all alone decides, and when neither is present the result is false
C24_ValidAll ==
    Replied /\ call.method = "work_validate" /\ rpc_result.err = "Ok" =>
        (rpc_result.value = "true" <=>
            IF reply.valid_all # "absent" THEN reply.valid_all = "1"
            ELSE reply.valid = "1")

\* valid_all "0" with valid "1": valid_all decided, the result is false
C24_Witness ==
    /\ Replied
    /\ call.method = "work_validate"
    /\ reply.valid_all = "0"
    /\ reply.valid = "1"
    /\ rpc_result.err = "Ok"
    /\ rpc_result.value = "false"

LowercaseSubtypes == {"send", "receive", "open", "change", "epoch"}

\* the parts of a process request every block gets the same way
ProcessCommon ==
    /\ request.json_block = "true"
    /\ request.block.signature =
           IF call.block.signature = NoSignature THEN EmptyString
           ELSE encode_upper(call.block.signature)
    /\ request.block.work =
           IF call.block.work = None THEN EmptyString
           ELSE to_hex(call.block.work)
    /\ request.block.link_as_account = encode_account(call.block.link)

\* C25 as stated: every request produced by ProcessRequest::new, for any
\* StateBlock, has json_block "true", carries a lowercase subtype field, and
\* has a block object whose signature and work are the block's and whose
\* link_as_account is the address of the link bytes
C25_ProcessRequest ==
    request.action = "process" =>
        /\ ProcessCommon
        /\ request.subtype \in LowercaseSubtypes

\* C25, amended: the request carries the lowercase subtype when the block
\* has a subtype and no subtype field when it has none; signature and work
\* are the block's in hex, or empty strings when the block has none
C25_ProcessRequestOptional ==
    request.action = "process" =>
        /\ ProcessCommon
        /\ call.block.subtype # "None" =>
               /\ request.subtype \in LowercaseSubtypes
               /\ request.subtype = Subtype_as_str(call.block.subtype)
        /\ call.block.subtype = "None" => request.subtype = "absent"

\* a signed receive block with work and a non-zero link was turned into a
\* request
C25_Witness ==
    /\ request.action = "process"
    /\ request.subtype = "receive"
    /\ call.block.link # ZeroHash
    /\ call.block.link # call.block.account
    /\ request.block.link_as_account = encode_account(call.block.link)
    /\ request.block.signature # EmptyString
    /\ request.block.work # EmptyString

\* ------------------------------------------------------ websocket claims

Delivered == ws.result.kind = "Some"
DeliveredFrame == frames[ws.result.frame]

TopicVariant ==
    [t \in Topics |->
        CASE t = "confirmation" -> "Confirmation"
          [] t = "vote" -> "Vote"
          [] t = "stopped_election" -> "StoppedElection"
          [] t = "active_difficulty" -> "ActiveDifficulty"
          [] t = "telemetry" -> "Telemetry"
          [] t = "work" -> "Work"]

\* C27: parse maps the topics confirmation, vote, stopped_election,
\* active_difficulty, telemetry and work to their variants when the body
\* deserializes, and yields Unknown, never an error, for every other topic
\* and for a known topic whose body fails to deserialize
C27_Parse ==
    Delivered =>
        ws.result.variant =
            IF DeliveredFrame.topic \in Topics /\ DeliveredFrame.body_ok
            THEN TopicVariant[DeliveredFrame.topic]
            ELSE "Unknown"

\* a vote envelope whose body does not deserialize was delivered as Unknown
C27_Witness ==
    /\ Delivered
    /\ DeliveredFrame.topic = "vote"
    /\ ~DeliveredFrame.body_ok
    /\ ws.result.variant = "Unknown"

\* frames receive passes over: binary frames and text that is no envelope
Skipped(f) == f.kind = "binary" \/ (f.kind = "text" /\ ~f.envelope)
Unskipped == {i \in 1..Len(frames) : ~Skipped(frames[i])}
FirstUnskipped == Smallest(Unskipped)

\* what receive has to return for the frames of the stream
Expected ==
    IF Unskipped = {}
    THEN [kind |-> "None", variant |-> "none", frame |-> 0]
    ELSE CASE frames[FirstUnskipped].kind = "close" ->
                  [kind |-> "None", variant |-> "none",
                   frame |-> FirstUnskipped]
           [] frames[FirstUnskipped].kind = "error" ->
                  [kind |-> "Err", variant |-> "ConnectionFailed",
                   frame |-> FirstUnskipped]
           [] frames[FirstUnskipped].kind = "text" ->
                  [kind |-> "Some",
                   variant |-> IF frames[FirstUnskipped].topic \in Topics
                                  /\ frames[FirstUnskipped].body_ok
                               THEN TopicVariant[frames[FirstUnskipped].topic]
                               ELSE "Unknown",
                   frame |-> FirstUnskipped]

\* C28: for any frame sequence, receive returns Ok(None) on a Close frame or
\* at the end of the stream, Err(WebSocket(ConnectionFailed)) on a transport
\* error, and otherwise the parse of the first text frame that is a topic
\* envelope; binary frames and text frames that are no envelope are skipped
\* and never delivered
C28_Receive ==
    /\ [](~Receiving => ws.result = Expected)
    /\ [](Delivered => ~Skipped(DeliveredFrame))
    /\ <>(~Receiving)

\* an acknowledgement and then a confirmation: the confirmation is returned
C28_Witness ==
    /\ Len(frames) = 2
    /\ frames[1].kind = "text"
    /\ ~frames[1].envelope
    /\ Delivered
    /\ ws.result.frame = 2
    /\ ws.result.variant = "Confirmation"

\* ---------------------------------------------------- receive_all claims

\* the reply has one of the three shapes: hash -> amount string,
\* hash -> object with an amount, or a bare array of hashes
ThreeShapes ==
    \/ /\ ra.shape = "object"
       /\ \A i \in 1..Len(ra.entries) :
              /\ ra.entries[i].key_ok
              /\ ra.entries[i].value \in {"amount", "obj_amount"}
    \/ /\ ra.shape = "array"
       /\ \A i \in 1..Len(ra.entries) :
              ra.entries[i].key_ok /\ ra.entries[i].value = "hash"

ReturnedOk == ra.pc = "done" /\ ra.result.err = "Ok"

\* C26: receive_all and receive_all_local invoke one receive per receivable
\* entry, in the order the entries are enumerated, for each of the three
\* reply shapes, and return the processed hashes in that order
C26_ReceiveEach ==
    ReturnedOk /\ ThreeShapes =>
        /\ ra.calls = [i \in 1..Len(ra.entries) |-> [src |-> i, ok |-> TRUE]]
        /\ ra.result.hashes = [i \in 1..Len(ra.entries) |-> processed(i)]

\* entries whose hash or amount does not parse
Unparsable(e) ==
    \/ ~e.key_ok /\ e.value # "other"
    \/ ~e.key_ok /\ ra.shape = "object"
    \/ e.value = "bad_amount"

ReturnedErr == ra.pc = "done" /\ ra.result.err \notin {"Ok", "Rpc"}

\* C29: if the receive of entry k fails inside receive_all, or the hash or
\* amount of entry k fails to parse, the call returns that error at once:
\* later entries are not attempted and the hashes of the entries already
\* received are not returned
C29_FailFast ==
    /\ \A c \in 1..Len(ra.calls) :
           ~ra.calls[c].ok =>
               /\ c = Len(ra.calls)
               /\ ra.pc = "done"
               /\ ra.result.err = "Receive"
               /\ ra.calls[c].src = ra.k
    /\ \A i \in 1..Len(ra.entries) :
           Unparsable(ra.entries[i]) /\ i <= ra.k =>
               /\ i = ra.k
               /\ ra.pc = "loop" \/ ra.result.err \in {"InvalidBlockHash",
                                                       "InvalidAmount"}
    /\ ReturnedErr =>
           /\ ra.result.hashes = <<>>
           /\ \A c \in 1..Len(ra.calls) : ra.calls[c].src <= ra.k

\* the first entry was received, the receive of the second failed, the
\* third was never attempted and no hash came back
C29_Witness ==
    /\ ReturnedErr
    /\ ra.result.err = "Receive"
    /\ Len(ra.entries) = 3
    /\ ra.k = 2
    /\ Len(ra.received) = 1
    /\ Len(ra.calls) = 2
    /\ ra.result.hashes = <<>>

\* ---------------------------------------------------- termination claims

\* why a closure that has returned did so
ReturnedFor(i) ==
    /\ wpc[i] = "some" => validate(ret[i], hash, threshold)
    /\ wpc[i] = "none" =>
           \/ nonce[i] >= end(i)
           \/ AtPoll(nonce[i]) /\ (CancelSet \/ found_flag)

\* a closure that has not returned can take its next step whatever the
\* others are doing
NeverWaits(i) ==
    wpc[i] = "queued" \/ Scanning(i) => ENABLED WorkerStep(i)

====
